---- MODULE Spec2Model ----
(***************************************************************************)
(* The OAuth flow handlers of the authenticating proxy (handlers.go):      *)
(* /oauth/authorize, /oauth/callback, /oauth/login, /oauth/logout,         *)
(* /oauth/expired, together with the browser's cookie jar, the refresh     *)
(* token store and the identity provider they talk to.                     *)
(*                                                                         *)
(* A string of the program that the handlers take apart (the state and     *)
(* redirect query parameters, a Location header) is a sequence of          *)
(* one-character strings; a URL or a path is a sequence of pieces, its     *)
(* separators each a piece.  A token is an opaque string, looked up in the *)
(* tables below.                                                           *)
(*                                                                         *)
(* /oauth/callback and /oauth/logout wait for the IdP and the store: each  *)
(* is a step that takes the request up and a step that answers it, and the *)
(* goroutines logout spawns run between the two.                           *)
(***************************************************************************)
EXTENDS Integers, Sequences, FiniteSets, TLC

\* ------------------------------------------------------------------ bounds

\* The clock runs from 0 to MaxTime.
MaxTime == 1

\* The store deletions spawned by logout and not yet run are counted, per
\* token, up to MaxPending: a count of MaxPending stands for that many or
\* more, so a logout is served whatever the count.
MaxPending == 1

\* ----------------------------------------------------------- HTTP statuses

StatusOK == 200
StatusFound == 302
StatusBadRequest == 400
StatusUnauthorized == 401
StatusForbidden == 403
StatusNotAcceptable == 406
StatusInternalServerError == 500
StatusNotImplemented == 501

\* ------------------------------------------------------------------ base64

\* The alphabet of base64.StdEncoding, index 0 first.
B64Alphabet ==
  << "A","B","C","D","E","F","G","H","I","J","K","L","M",
     "N","O","P","Q","R","S","T","U","V","W","X","Y","Z",
     "a","b","c","d","e","f","g","h","i","j","k","l","m",
     "n","o","p","q","r","s","t","u","v","w","x","y","z",
     "0","1","2","3","4","5","6","7","8","9","+","/" >>

\* The printable ASCII characters, code 32 first.
Ascii ==
  << " ","!","\"","#","$","%","&","'","(",")","*","+",",","-",".","/",
     "0","1","2","3","4","5","6","7","8","9",":",";","<","=",">","?",
     "@","A","B","C","D","E","F","G","H","I","J","K","L","M","N","O",
     "P","Q","R","S","T","U","V","W","X","Y","Z","[","\\","]","^","_",
     "\\x96","a","b","c","d","e","f","g","h","i","j","k","l","m","n","o",
     "p","q","r","s","t","u","v","w","x","y","z","{","|","}","~" >>

IsB64Char(c) == \E i \in 1..64 : B64Alphabet[i] = c

B64Value(c) == (CHOOSE i \in 1..64 : B64Alphabet[i] = c) - 1

\* string(byte): the character of a byte; tab, line feed and carriage
\* return are themselves, and any other byte outside printable ASCII, and the
\* backquote (code 96), is written \x<code>.
ByteToChar(b) ==
  IF b >= 32 /\ b <= 126 THEN Ascii[b - 31]
  ELSE IF b = 9 THEN "\t"
  ELSE IF b = 10 THEN "\n"
  ELSE IF b = 13 THEN "\r"
  ELSE "\\x" \o ToString(b)

RECURSIVE BytesToString(_)
\* string(bytes)
BytesToString(bytes) ==
  IF bytes = << >> THEN << >>
  ELSE << ByteToChar(Head(bytes)) >> \o BytesToString(Tail(bytes))

\* One group of four input characters.  pad is the number of trailing "="
\* (0 for a full group); the group's 24 bits give 3 - pad bytes.
B64Group(q, pad) ==
  LET v1 == B64Value(q[1])
      v2 == B64Value(q[2])
      v3 == IF pad >= 2 THEN 0 ELSE B64Value(q[3])
      v4 == IF pad >= 1 THEN 0 ELSE B64Value(q[4])
      v  == v1 * 262144 + v2 * 4096 + v3 * 64 + v4
      bytes == << v \div 65536, (v \div 256) % 256, v % 256 >>
  IN  SubSeq(bytes, 1, 3 - pad)

\* The padding of a group of four: 0, 1 or 2 trailing "=", or -1 when the
\* group is malformed.
B64Pad(q) ==
  IF \A i \in 1..4 : IsB64Char(q[i]) THEN 0
  ELSE IF (\A i \in 1..3 : IsB64Char(q[i])) /\ q[4] = "=" THEN 1
  ELSE IF (\A i \in 1..2 : IsB64Char(q[i])) /\ q[3] = "=" /\ q[4] = "=" THEN 2
  ELSE -1

\* The characters the decoder passes over wherever they stand.
IsNewline(c) == c = "\n" \/ c = "\r"

\* The input as the decoder reads it: without its \r and \n.
StripNewlines(s) == SelectSeq(s, LAMBDA c : ~IsNewline(c))

RECURSIVE B64Quanta(_, _)
\* The bytes of the groups of four of t from position i on, t holding no
\* newline; <<-1>> marks an error.  Padding is taken in the last group only.
B64Quanta(t, i) ==
  IF i > Len(t) THEN << >>
  ELSE LET q    == SubSeq(t, i, i + 3)
           pad  == B64Pad(q)
           final == i + 3 = Len(t)
       IN  IF pad = -1 \/ (pad > 0 /\ ~final) THEN << -1 >>
           ELSE LET rest == B64Quanta(t, i + 4)
                IN  IF rest # << >> /\ rest[Len(rest)] = -1 THEN << -1 >>
                    ELSE B64Group(q, pad) \o rest

\* The bytes of s from position i on; <<-1>> marks an error.  Newlines are
\* passed over, between groups, inside a group and after the padding; what
\* is left has to be a whole number of groups of four.
B64DecodeFrom(s, i) ==
  LET t == StripNewlines(SubSeq(s, i, Len(s)))
  IN  IF Len(t) % 4 # 0 THEN << -1 >> ELSE B64Quanta(t, 1)

\* base64.StdEncoding.DecodeString: padded input, "=" only at the end, \r and
\* \n ignored.
DecodeString(s) ==
  LET bytes == B64DecodeFrom(s, 1)
  IN  IF bytes # << >> /\ bytes[Len(bytes)] = -1
      THEN [err |-> TRUE, decoded |-> << >>]
      ELSE [err |-> FALSE, decoded |-> BytesToString(bytes)]

\* ------------------------------------------------------------------ tokens

\* The compact JWTs of the model and what parsing and verifying them gives:
\* the identity's email, its expiry, and whether the signature is the IdP's.
JwtClaims ==
  ( "access.jwt"  :> [email |-> "alice@example.com", exp |-> 1, sig |-> TRUE] ) @@
  ( "id.jwt"      :> [email |-> "alice@example.com", exp |-> 1, sig |-> TRUE] ) @@
  ( "id.forged"   :> [email |-> "mallory@example.com", exp |-> 1, sig |-> FALSE] ) @@
  ( "refresh.jwt" :> [email |-> "alice@example.com", exp |-> 2, sig |-> TRUE] )

\* What the token endpoint can return in each field of its response.
IDTokens == {"id.jwt", "id.forged", "id.garbage"}
AccessTokens == {"access.jwt", "access.opaque"}
RefreshTokens == {"refresh.jwt", "refresh.opaque"}

\* A cookie, header or parameter that is absent is the empty string.
Absent == ""

\* Set-Cookie values of a response: no Set-Cookie for the name, or the name
\* cleared (empty value, MaxAge -1).
NotSet == "(not set)"
Cleared == "(cleared)"

\* parseToken: a JWT gives the token and its identity, anything else an error.
parseToken(raw) ==
  IF raw \in DOMAIN JwtClaims
  THEN [err |-> FALSE, token |-> [raw |-> raw],
        identity |-> [Email |-> JwtClaims[raw].email, ExpiresAt |-> JwtClaims[raw].exp]]
  ELSE [err |-> TRUE, token |-> [raw |-> Absent],
        identity |-> [Email |-> "", ExpiresAt |-> 0]]

\* token.Encode(): the compact serialisation the token was parsed from.
Encode(token) == token.raw

\* verifyToken: nil iff the signature is the IdP's.
verifyToken(token) == JwtClaims[token.raw].sig

\* encodeText(plain, key): the AES-GCM ciphertext of plain under key.
encodeText(plain, key) == "enc(" \o key \o "," \o plain \o ")"

\* decodeText(cipher, key): the plaintext of a ciphertext made under key, an
\* error for anything else.
decodeText(cipher, key) ==
  IF \E p \in RefreshTokens : encodeText(p, key) = cipher
  THEN [err |-> FALSE, text |-> CHOOSE p \in RefreshTokens : encodeText(p, key) = cipher]
  ELSE [err |-> TRUE, text |-> ""]

\* The store's key of a token.
StoreKey(token) == token.raw

\* -------------------------------------------------------------- the inputs

\* The state query parameters a callback is tried with: absent, "/",
\* "/bye", "/bye" with a line feed in it, "/bye" without its padding,
\* "http://evil/" and "//evil".
StateParams ==
  { << >>,
    << "L","w","=","=" >>,
    << "L","2","J","5","Z","Q","=","=" >>,
    << "L","2","J","5","\n","Z","Q","=","=" >>,
    << "L","2","J","5","Z","Q" >>,
    << "a","H","R","0","c","D","o","v","L","2","V","2","a","W","w","v" >>,
    << "L","y","9","l","d","m","l","s" >> }

\* DecodeString on each of them, worked out once.
StateDecodings == { << s, DecodeString(s) >> : s \in StateParams }

DecodeState(s) == (CHOOSE p \in StateDecodings : p[1] = s)[2]

\* The redirect query parameters a logout is tried with: absent and "/bye".
RedirectParams == { << >>, << "/","b","y","e" >> }

\* The code query parameters of a callback.
Codes == {"", "abc"}

\* The bearer tokens a request may carry in its Authorization header.
Bearers == {Absent, "access.jwt", "access.opaque"}

\* The outcomes of the code exchange: an error, or a token response.
NoExchange == [err |-> TRUE, IDToken |-> "", AccessToken |-> "", RefreshToken |-> ""]

ExchangeOutcomes ==
  { NoExchange } \cup
  [ err : {FALSE}, IDToken : IDTokens, AccessToken : AccessTokens,
    RefreshToken : RefreshTokens \cup {""} ]

\* The token responses the sessions of the logout scenarios begin with.
SessionExchanges ==
  { ex \in ExchangeOutcomes :
      /\ ~ex.err /\ ex.IDToken = "id.jwt"
      /\ ex.RefreshToken \in {"", "refresh.jwt"} }

\* The form values a login is tried with.
Usernames == {"", "alice"}
Passwords == {"", "right", "wrong"}

\* The answers of the token endpoint to a password grant: the grant refused,
\* a transport error, or a token response.
PasswordOutcomes ==
  { [err |-> "invalid_grant", IDToken |-> "", AccessToken |-> "", RefreshToken |-> ""],
    [err |-> "transport error", IDToken |-> "", AccessToken |-> "", RefreshToken |-> ""] } \cup
  [ err : {""}, IDToken : {"id.jwt"}, AccessToken : AccessTokens,
    RefreshToken : {"refresh.jwt"} ]

\* The outcomes of the POST to the revocation endpoint: a transport error or
\* the status of the answer.
RevocationOutcomes == {"transport error", "204", "400"}

\* The kc-state cookies a request may bring that the jar does not hold: one
\* left from an earlier session, and one that is no ciphertext of the key.
StaleCookies == { encodeText("refresh.opaque", "key"), "tampered" }

\* The URLs that url.Parse, and so http.NewRequest, rejects.
MalformedURLs == {"%zz"}

\* The client's secret, in pieces: it holds a character the query escape
\* rewrites.
ClientSecret == << "secret", "/", "1" >>

\* Every combination of the options the handlers read, with the end-session
\* endpoint the IdP's discovery document gave.
AllConfigs ==
  [ SkipTokenVerification : BOOLEAN,
    EnableRefreshTokens   : BOOLEAN,
    EnableLoginHandler    : BOOLEAN,
    useStore              : BOOLEAN,
    RevocationEndpoint    : {"", "https://idp/revoke", "%zz"},
    EndSessionEndpoint    : {"", "https://idp/logout"},
    EncryptionKey         : {"key"},
    ClientID              : {"proxy"},
    ClientSecret          : {ClientSecret} ]

\* The configurations of a session's life.  Refresh tokens, the store and a
\* revocation endpoint are switched on and off in every combination; the
\* login handler is enabled, and the revocation endpoint is malformed or
\* discovered, against one setting of the others.
Configs ==
  { c \in AllConfigs :
      /\ ~c.SkipTokenVerification
      /\ \/ /\ c.RevocationEndpoint \in {"", "https://idp/revoke"}
            /\ c.EndSessionEndpoint = ""
            /\ c.EnableLoginHandler <=> c.RevocationEndpoint # ""
            /\ c.useStore => c.EnableRefreshTokens
         \/ /\ c.RevocationEndpoint = "%zz" \/ c.EndSessionEndpoint # ""
            /\ c.RevocationEndpoint = "" \/ c.EndSessionEndpoint = ""
            /\ ~c.EnableLoginHandler /\ c.EnableRefreshTokens /\ ~c.useStore }

\* The configurations of the logout scenarios: refresh tokens and a
\* revocation endpoint, with and without a store.
LogoutConfigs ==
  { c \in AllConfigs :
      /\ ~c.SkipTokenVerification /\ ~c.EnableLoginHandler /\ c.EnableRefreshTokens
      /\ c.RevocationEndpoint = "https://idp/revoke" /\ c.EndSessionEndpoint = "" }

\* The configurations of the callback on its own: the options it reads.
CallbackConfigs ==
  { c \in AllConfigs :
      /\ c.RevocationEndpoint = "" /\ c.EndSessionEndpoint = ""
      /\ ~c.EnableLoginHandler }

\* A URL or a path is a sequence of pieces: each of its characters that
\* url.QueryEscape rewrites or path.Base splits at is a piece of its own, and
\* a run of letters, digits, "." and "_" between them is one piece.
ProxyURL == << "https", ":", "/", "/", "proxy.example.com" >>
SignInPages == { << >>, << "templates", "/", "sign_in.html" >> }

\* The tags of a configuration, handed to the sign-in page: none, a title,
\* and one named as the page's redirect is.
TagMaps ==
  { {},
    { << "title", << "Sign", " ", "in" >> >> },
    { << "redirect", << "https", ":", "/", "/", "evil.example", "/" >> >> } }

\* The scopes a configuration asks for.
ScopeLists == { << >>, << "email" >>, << "email", "offline" >> }

\* The configurations of /oauth/authorize: the options it reads.
AuthorizeConfigs ==
  [ SkipTokenVerification : BOOLEAN,
    Scopes                : ScopeLists,
    SignInPage            : SignInPages,
    Tags                  : TagMaps,
    RedirectionURL        : {<< >>, ProxyURL},
    ClientID              : {"proxy"} ]

\* The configurations of the login flow, /oauth/authorize then
\* /oauth/callback: the options either reads, token verification on and off.
FlowConfigs ==
  [ SkipTokenVerification : BOOLEAN,
    EnableRefreshTokens   : {TRUE},
    EnableLoginHandler    : {FALSE},
    useStore              : BOOLEAN,
    RevocationEndpoint    : {""},
    EndSessionEndpoint    : {""},
    EncryptionKey         : {"key"},
    ClientID              : {"proxy"},
    ClientSecret          : {ClientSecret},
    Scopes                : {<< "email", "offline" >>},
    SignInPage            : SignInPages,
    Tags                  : {{}},
    RedirectionURL        : {ProxyURL} ]

\* The X-Forwarded-Proto and X-Forwarded-Host headers of a request.
ForwardedProtos == {"", "https"}
ForwardedHosts == {"", "public.example.com"}

\* ------------------------------------------------------------------- state

VARIABLES
  config,    \* the configuration snapshot, fixed at construction
  now,       \* the clock
  jar,       \* the browser's cookies: [access, state]
  store,     \* the refresh token store: key -> ciphertext
  pending,   \* key -> number of spawned store deletions not yet run,
             \* counted up to MaxPending
  session,   \* "none", "active" (cookies issued), "loggedout" (cleared by logout)
  flight,    \* the callback or logout the proxy is handling and has not answered
  last       \* the browser's latest request and everything its handler did,
             \* blank until it is answered

vars == << config, now, jar, store, pending, session, flight, last >>

EmptyStore == [k \in {} |-> ""]

\* A request: its handler and what the handler reads of it, everything absent
\* to begin with.
Request(handler) ==
  [ handler |-> handler, code |-> "", state |-> << >>, redirect |-> << >>,
    bearer |-> Absent, access |-> Absent, refresh |-> Absent,
    username |-> "", password |-> "", html |-> FALSE,
    tls |-> FALSE, forwardedProto |-> "", forwardedHost |-> "", host |-> "proxy",
    clientIP |-> "192.0.2.7", remoteAddr |-> "192.0.2.7:4711" ]

\* A response that nothing has been written to; gin answers 200 when the
\* handler returns without setting a status.
Blank(req) ==
  [ req       |-> req,
    status    |-> StatusOK,
    location  |-> << >>,
    setAccess |-> NotSet,
    accessMaxAge |-> 0,
    setState  |-> NotSet,
    stateMaxAge |-> 0,
    body      |-> {},
    template  |-> << >>,
    upstream  |-> FALSE,
    logs      |-> {},
    idp       |-> << >>,
    exchanged |-> NoExchange,
    storeOps  |-> << >>,
    crypto    |-> << >>,
    verified  |-> {},
    spawned   |-> {} ]

\* No request is being handled.  The browser of the jar sends its next
\* request when the last one is answered; the goroutines and the clock run
\* while a request is in flight.
NoFlight == Blank(Request("none"))

\* ------------------------------------------------ the response and cookies

RECURSIVE Flatten(_)
\* The characters of a string joined, as a log field prints them.
Flatten(chars) == IF chars = << >> THEN "" ELSE Head(chars) \o Flatten(Tail(chars))

\* A log line's field.
Log(r, field, value) == [r EXCEPT !.logs = @ \cup {<< field, value >>}]

\* cx.AbortWithStatus(code)
AbortWithStatus(r, code) == [r EXCEPT !.status = code]

\* accessForbidden: 403.
accessForbidden(r) == AbortWithStatus(r, StatusForbidden)

\* redirectToURL: a redirect to url.
redirectToURL(r, url) == [r EXCEPT !.status = StatusFound, !.location = url]

\* dropAccessTokenCookie: Set-Cookie kc-access.
dropAccessTokenCookie(r, value, duration) ==
  [r EXCEPT !.setAccess = value, !.accessMaxAge = duration]

\* dropRefreshTokenCookie: Set-Cookie kc-state.
dropRefreshTokenCookie(r, value, duration) ==
  [r EXCEPT !.setState = value, !.stateMaxAge = duration]

\* clearAllCookies: both cookies set to empty with MaxAge -1.
clearAllCookies(r) ==
  [r EXCEPT !.setAccess = Cleared, !.accessMaxAge = -1,
            !.setState = Cleared, !.stateMaxAge = -1]

\* getAccessCookieExpiration: the refresh token's remaining life when it is a
\* JWT, the access token's otherwise.
getAccessCookieExpiration(token, refresh) ==
  LET p == parseToken(refresh)
  IN  IF p.err THEN JwtClaims[token.raw].exp - now ELSE p.identity.ExpiresAt - now

\* The browser's jar after a response: a Set-Cookie replaces the cookie, a
\* cleared one removes it.
ApplyCookie(old, set) == IF set = NotSet THEN old ELSE IF set = Cleared THEN Absent ELSE set

ApplyCookies(r) ==
  [access |-> ApplyCookie(jar.access, r.setAccess),
   state  |-> ApplyCookie(jar.state, r.setState)]

\* The session the jar stands for after a response: "loggedout" once a
\* logout got past its identity check, "active" once a kc-access cookie is
\* issued, "none" when another handler cleared the cookies.
SessionAfter(r) ==
  IF r.req.handler = "logout" /\ r.status # StatusBadRequest THEN "loggedout"
  ELSE IF r.setAccess = Cleared THEN "none"
  ELSE IF r.setAccess # NotSet THEN "active"
  ELSE session

\* --------------------------------------------------------------- the store

StorePut(st, key, value) ==
  [k \in DOMAIN st \cup {key} |-> IF k = key THEN value ELSE st[k]]

StoreDelete(st, key) == [k \in DOMAIN st \ {key} |-> st[k]]

\* ------------------------------------------------ oauthAuthorizationHandler

\* defaultTo(v, d)
defaultTo(v, d) == IF v # "" THEN v ELSE d

\* getRedirectionURL: the configured URL, or the request's own scheme and
\* host, the X-Forwarded headers first, with /oauth/callback behind it.
getRedirectionURL(req) ==
  LET scheme == IF req.tls THEN "https" ELSE "http"
      redirect == IF config.RedirectionURL = << >>
                  THEN << defaultTo(req.forwardedProto, scheme), ":", "/", "/",
                          defaultTo(req.forwardedHost, req.host) >>
                  ELSE config.RedirectionURL
  IN  redirect \o << "/", "oauth", "/", "callback" >>

RECURSIVE containedIn(_, _)
\* containedIn: the value is one of the list.
containedIn(value, list) ==
  IF list = << >> THEN FALSE
  ELSE IF Head(list) = value THEN TRUE
  ELSE containedIn(value, Tail(list))

RECURSIVE JoinScopes(_)
\* The scopes as the scope parameter carries them.
JoinScopes(list) ==
  IF list = << >> THEN ""
  ELSE IF Tail(list) = << >> THEN Head(list)
  ELSE Head(list) \o "+" \o JoinScopes(Tail(list))

\* The byte of each character.
CharCodes ==
  [c \in { ByteToChar(b) : b \in 0..255 } |->
     CHOOSE b \in 0..255 : ByteToChar(b) = c]

\* The hexadecimal digits, as url.QueryEscape writes them.
HexDigits == << "0","1","2","3","4","5","6","7","8","9","A","B","C","D","E","F" >>

\* The value of a hexadecimal digit, upper or lower case; -1 for anything
\* else.
HexValue(d) ==
  IF \E i \in 1..16 : HexDigits[i] = d THEN (CHOOSE i \in 1..16 : HexDigits[i] = d) - 1
  ELSE IF d = "a" THEN 10 ELSE IF d = "b" THEN 11 ELSE IF d = "c" THEN 12
  ELSE IF d = "d" THEN 13 ELSE IF d = "e" THEN 14 ELSE IF d = "f" THEN 15
  ELSE -1

\* The bytes url.QueryEscape leaves alone: letters, digits, "-", "_", "."
\* and "~".
Unreserved(b) ==
  \/ b >= 48 /\ b <= 57
  \/ b >= 65 /\ b <= 90
  \/ b >= 97 /\ b <= 122
  \/ b \in {45, 46, 95, 126}

\* url.QueryEscape of one piece: an unreserved character, and a run of
\* them, is left alone, a space is "+", and any other character is "%" and
\* the two hexadecimal digits of its byte.
EscapeChar(c) ==
  IF c \notin DOMAIN CharCodes THEN << c >>
  ELSE LET b == CharCodes[c]
       IN  IF Unreserved(b) THEN << c >>
           ELSE IF b = 32 THEN << "+" >>
           ELSE << "%", HexDigits[(b \div 16) + 1], HexDigits[(b % 16) + 1] >>

\* The character of the escape "%" h1 h2.
UnescapeChar(h1, h2) == ByteToChar(16 * HexValue(h1) + HexValue(h2))

RECURSIVE QueryEscape(_)
\* url.QueryEscape
QueryEscape(chars) ==
  IF chars = << >> THEN << >>
  ELSE EscapeChar(Head(chars)) \o QueryEscape(Tail(chars))

RECURSIVE UnescapeFrom(_, _)
\* The characters of the escaped s from position i on, every escape of it
\* being well formed.
UnescapeFrom(s, i) ==
  IF i > Len(s) THEN << >>
  ELSE IF s[i] = "%" THEN << UnescapeChar(s[i + 1], s[i + 2]) >> \o UnescapeFrom(s, i + 3)
  ELSE IF s[i] = "+" THEN << " " >> \o UnescapeFrom(s, i + 1)
  ELSE << s[i] >> \o UnescapeFrom(s, i + 1)

\* url.QueryUnescape: an error when a "%" is not followed by two hexadecimal
\* digits, the unescaped characters otherwise.
QueryUnescape(s) ==
  IF \E i \in 1..Len(s) :
       /\ s[i] = "%"
       /\ \/ i + 2 > Len(s)
          \/ HexValue(s[i + 1]) = -1
          \/ HexValue(s[i + 2]) = -1
  THEN [err |-> TRUE, text |-> << >>]
  ELSE [err |-> FALSE, text |-> UnescapeFrom(s, 1)]

\* The authorization endpoint of the IdP.
AuthEndpoint == "https://idp/authorize"

\* client.AuthCodeURL: the authorization endpoint with the client's
\* parameters in the order url.Values.Encode gives them, the state last, and
\* the values escaped as it escapes them.
AuthCodeURL(redirectURL, stateParam, accessType) ==
  << AuthEndpoint,
     IF accessType = "offline" THEN "?access_type=offline&" ELSE "?",
     "client_id=" \o config.ClientID,
     "&redirect_uri=" >>
  \o QueryEscape(redirectURL)
  \o << "&response_type=code",
        "&scope=" \o JoinScopes(config.Scopes),
        "&state=" >>
  \o QueryEscape(stateParam)

\* A slip: offline access is asked for whatever the scopes.
AccessTypeAlwaysOffline == "offline"

\* The access type of the session: offline when the scopes hold it.
AccessType == IF containedIn("offline", config.Scopes) THEN "offline" ELSE ""

\* hasCustomSignInPage: a sign-in page is configured.
hasCustomSignInPage == config.SignInPage # << >>

RECURSIVE TrimSlashes(_)
\* A path without its trailing slashes.
TrimSlashes(p) ==
  IF p # << >> /\ p[Len(p)] = "/" THEN TrimSlashes(SubSeq(p, 1, Len(p) - 1)) ELSE p

RECURSIVE LastElement(_)
\* What follows the last slash of a path.
LastElement(p) ==
  IF p = << >> \/ p[Len(p)] = "/" THEN << >>
  ELSE LastElement(SubSeq(p, 1, Len(p) - 1)) \o << p[Len(p)] >>

\* path.Base: the last element of the path, its trailing slashes removed;
\* "." for an empty path and "/" for one of slashes only.
pathBase(p) ==
  IF p = << >> THEN << "." >>
  ELSE IF TrimSlashes(p) = << >> THEN << "/" >>
  ELSE LastElement(TrimSlashes(p))

\* mergeMaps(dest, source): dest with every entry of source, an entry of
\* source replacing the one dest has under the same name.
mergeMaps(dest, source) ==
  { e \in dest : ~\E t \in source : t[1] = e[1] } \cup source

\* The whole handler.
AuthorizationOutcome(req, clientErr) ==
  LET r0 == Blank(req)
  IN  IF config.SkipTokenVerification
      THEN AbortWithStatus(r0, StatusNotAcceptable)
      ELSE IF clientErr
      THEN AbortWithStatus(
             Log(r0, "error", "failed to retrieve the oauth client for authorization"),
             StatusInternalServerError)
      ELSE LET authURL == AuthCodeURL(getRedirectionURL(req), req.state, AccessType)
               r1 == Log(Log(Log(r0, "client_ip", req.clientIP),
                             "access_type", AccessType),
                         "auth-url", Flatten(authURL))
           IN  IF hasCustomSignInPage
               THEN [r1 EXCEPT !.status = StatusOK,
                               !.template = pathBase(config.SignInPage),
                               !.body = mergeMaps({ << "redirect", authURL >> },
                                                  config.Tags)]
               ELSE redirectToURL(r1, authURL)

\* A request for /oauth/authorize, its state parameter drawn from the given
\* set.  The handler waits for nothing: it is one step.
Authorize(stateParams) ==
  \E stateParam \in stateParams, tls \in BOOLEAN,
     proto \in ForwardedProtos, fhost \in ForwardedHosts :
  \E clientErr \in IF config.SkipTokenVerification THEN {FALSE} ELSE BOOLEAN :
    /\ last' = AuthorizationOutcome(
                 [Request("authorize") EXCEPT !.state = stateParam, !.tls = tls,
                                              !.forwardedProto = proto,
                                              !.forwardedHost = fhost],
                 clientErr)
    /\ flight = NoFlight
    /\ UNCHANGED << config, now, jar, store, pending, session, flight >>

\* GET /oauth/authorize, any request.
oauthAuthorizationHandler == Authorize(StateParams)

\* GET /oauth/authorize as the middleware's redirect asks for it: with the
\* requested URI, "/", as the state.
FlowAuthorize == Authorize({ << "L","w","=","=" >> })

\* ----------------------------------------------------- oauthCallbackHandler

\* A slip: the ID token is parsed and its signature never checked.
CallbackIDTokenUnverified(r, resp) ==
  LET p == parseToken(resp.IDToken)
  IN  IF p.err
      THEN [ok |-> FALSE, token |-> p.token, identity |-> p.identity,
            r |-> accessForbidden(Log(r, "error", "unable to parse id token"))]
      ELSE [ok |-> TRUE, token |-> p.token, identity |-> p.identity, r |-> r]

\* The ID token of the exchange response is parsed and verified; a failure of
\* either is a 403.
CallbackIDToken(r, resp) ==
  LET p == parseToken(resp.IDToken)
  IN  IF p.err
      THEN [ok |-> FALSE, token |-> p.token, identity |-> p.identity,
            r |-> accessForbidden(Log(r, "error", "unable to parse id token"))]
      ELSE IF ~verifyToken(p.token)
      THEN [ok |-> FALSE, token |-> p.token, identity |-> p.identity,
            r |-> accessForbidden(Log(r, "error", "unable to verify the id token"))]
      ELSE [ok |-> TRUE, token |-> p.token, identity |-> p.identity,
            r |-> [r EXCEPT !.verified = @ \cup {Encode(p.token)}]]

\* A slip: the access token is parsed and the ID token kept all the same.
CallbackTokenKeepsID(r, id, resp) ==
  LET a == parseToken(resp.AccessToken)
  IN  IF a.err
      THEN [token |-> id.token, identity |-> id.identity,
            r |-> Log(r, "error", "unable to parse the access token")]
      ELSE [token |-> id.token, identity |-> id.identity, r |-> r]

\* The access token replaces the ID token when it parses.
CallbackToken(r, id, resp) ==
  LET a == parseToken(resp.AccessToken)
  IN  IF a.err
      THEN [token |-> id.token, identity |-> id.identity,
            r |-> Log(r, "error", "unable to parse the access token")]
      ELSE [token |-> a.token, identity |-> a.identity, r |-> r]

\* The log line of the token being issued.
CallbackIssueLog(r, identity) ==
  Log(Log(Log(r, "email", identity.Email),
          "expires", ToString(identity.ExpiresAt)),
      "duration", ToString(identity.ExpiresAt - now))

\* A slip: the refresh token goes out as it came.
RefreshCiphertextPlain(resp) == resp.RefreshToken

\* The refresh token of the response, encrypted under the configured key.
RefreshCiphertext(resp) == encodeText(resp.RefreshToken, config.EncryptionKey)

\* A slip: no kc-access cookie is dropped.
CallbackAccessCookieMissing(r, token, duration) == r

\* The kc-access cookie of the new session: the encoded token.
CallbackAccessCookie(r, token, duration) ==
  dropAccessTokenCookie(r, Encode(token), duration)

\* A slip: the cookie is dropped before the refresh token is encrypted.
CallbackEncryptFailedAfterCookie(r, st, token, identity) ==
  [aborted |-> TRUE, store |-> st,
   r |-> AbortWithStatus(
           Log([CallbackAccessCookie(r, token, identity.ExpiresAt - now)
                  EXCEPT !.crypto = Append(@, << "encodeText", "error" >>)],
               "error", "failed to encrypt"),
           StatusInternalServerError)]

\* The refresh token could not be encrypted: a 500, and the handler returns.
CallbackEncryptFailed(r, st, token, identity) ==
  [aborted |-> TRUE, store |-> st,
   r |-> AbortWithStatus(
           Log([r EXCEPT !.crypto = Append(@, << "encodeText", "error" >>)],
               "error", "failed to encrypt"),
           StatusInternalServerError)]

\* A slip: a failed store write fails the request.
CallbackStoreFailureAborts(r, st, token, encrypted, storeErr) ==
  IF storeErr
  THEN [aborted |-> TRUE, store |-> st,
        r |-> AbortWithStatus(
                Log([r EXCEPT !.storeOps =
                       Append(@, << "put", StoreKey(token), encrypted, "error" >>)],
                    "error", "failed to save the refresh token"),
                StatusInternalServerError)]
  ELSE [aborted |-> FALSE,
        store |-> StorePut(st, StoreKey(token), encrypted),
        r |-> [r EXCEPT !.storeOps =
                 Append(@, << "put", StoreKey(token), encrypted, "ok" >>)]]

\* A slip: the ciphertext goes to the store and to the kc-state cookie too.
CallbackStoreAndCookie(r, st, token, encrypted, storeErr) ==
  IF storeErr
  THEN [aborted |-> FALSE, store |-> st,
        r |-> Log([r EXCEPT !.storeOps =
                     Append(@, << "put", StoreKey(token), encrypted, "error" >>)],
                  "error", "failed to save the refresh token")]
  ELSE [aborted |-> FALSE,
        store |-> StorePut(st, StoreKey(token), encrypted),
        r |-> dropRefreshTokenCookie(
                [r EXCEPT !.storeOps =
                   Append(@, << "put", StoreKey(token), encrypted, "ok" >>)],
                encrypted, 240)]

\* The ciphertext is saved in the store under the token; a failure is logged.
CallbackStore(r, st, token, encrypted, storeErr) ==
  IF storeErr
  THEN [aborted |-> FALSE, store |-> st,
        r |-> Log([r EXCEPT !.storeOps =
                     Append(@, << "put", StoreKey(token), encrypted, "error" >>)],
                  "error", "failed to save the refresh token")]
  ELSE [aborted |-> FALSE,
        store |-> StorePut(st, StoreKey(token), encrypted),
        r |-> [r EXCEPT !.storeOps =
                 Append(@, << "put", StoreKey(token), encrypted, "ok" >>)]]

\* The ciphertext is dropped as the kc-state cookie, for the refresh token's
\* life when it is a JWT and for 240 hours otherwise.
CallbackStateCookie(r, st, resp, encrypted) ==
  LET p == parseToken(resp.RefreshToken)
  IN  [aborted |-> FALSE, store |-> st,
       r |-> IF p.err
             THEN dropRefreshTokenCookie(r, encrypted, 240)
             ELSE dropRefreshTokenCookie(r, encrypted, p.identity.ExpiresAt - now)]

\* The cookies and the store entry of the new session.  aborted is set when
\* the handler has answered and returned.
CallbackSession(r, st, token, identity, resp, encErr, storeErr) ==
  IF config.EnableRefreshTokens /\ resp.RefreshToken # ""
  THEN IF encErr
       THEN CallbackEncryptFailed(r, st, token, identity)
       ELSE LET encrypted == RefreshCiphertext(resp)
                r1 == CallbackAccessCookie(
                        [r EXCEPT !.crypto = Append(@, << "encodeText", "ok" >>)],
                        token,
                        getAccessCookieExpiration(token, resp.RefreshToken))
            IN  IF config.useStore
                THEN CallbackStore(r1, st, token, encrypted, storeErr)
                ELSE CallbackStateCookie(r1, st, resp, encrypted)
  ELSE [aborted |-> FALSE, store |-> st,
        r |-> CallbackAccessCookie(r, token, identity.ExpiresAt - now)]

\* A slip: the error of the decoding is logged and its result used anyway.
CallbackStateNoFallback(r, stateParam) ==
  IF stateParam # << >>
  THEN LET d == DecodeState(stateParam)
       IN  IF d.err
           THEN [state |-> d.decoded,
                 r |-> Log(Log(r, "state", Flatten(stateParam)), "error", "illegal base64 data")]
           ELSE [state |-> d.decoded, r |-> r]
  ELSE [state |-> << "/" >>, r |-> r]

\* The redirect target: the decoded state parameter, "/" when it is absent
\* or does not decode.
CallbackState(r, stateParam) ==
  IF stateParam # << >>
  THEN LET d == DecodeState(stateParam)
       IN  IF d.err
           THEN [state |-> << "/" >>,
                 r |-> Log(Log(r, "state", Flatten(stateParam)), "error", "illegal base64 data")]
           ELSE [state |-> d.decoded, r |-> r]
  ELSE [state |-> << "/" >>, r |-> r]

\* No status: the request is not refused.
NoStatus == 0

\* A slip: the callback goes on without token verification.
CallbackRefusalIgnoresSkip(req) ==
  IF req.code = "" THEN StatusBadRequest ELSE NoStatus

\* The checks the callback begins with: 406 when tokens are not verified,
\* then 400 without a code.
CallbackRefusal(req) ==
  IF config.SkipTokenVerification THEN StatusNotAcceptable
  ELSE IF req.code = "" THEN StatusBadRequest
  ELSE NoStatus

\* The whole handler: the response and the store it leaves.
CallbackOutcome(req, clientErr, ex, encErr, storeErr) ==
  LET r0 == Blank(req)
  IN  IF CallbackRefusal(req) # NoStatus
      THEN [r |-> AbortWithStatus(r0, CallbackRefusal(req)), store |-> store]
      ELSE IF clientErr
      THEN [r |-> AbortWithStatus(Log(r0, "error", "unable to create a oauth2 client"),
                                  StatusInternalServerError),
            store |-> store]
      ELSE LET r1 == [r0 EXCEPT !.idp = Append(@, << "exchange", req.code >>),
                                !.exchanged = ex]
           IN  IF ex.err
               THEN [r |-> accessForbidden(Log(r1, "error", "unable to exchange code")),
                     store |-> store]
               ELSE LET id == CallbackIDToken(r1, ex)
                    IN  IF ~id.ok
                        THEN [r |-> id.r, store |-> store]
                        ELSE LET tk == CallbackToken(id.r, id, ex)
                                 r2 == CallbackIssueLog(tk.r, tk.identity)
                                 ss == CallbackSession(r2, store, tk.token, tk.identity,
                                                       ex, encErr, storeErr)
                             IN  IF ss.aborted
                                 THEN [r |-> ss.r, store |-> ss.store]
                                 ELSE LET sd == CallbackState(ss.r, req.state)
                                      IN  [r |-> redirectToURL(sd.r, sd.state),
                                           store |-> ss.store]

\* A callback with its code, state parameter and exchange outcome drawn from
\* the given sets.  The environment's answers are drawn only where the
\* handler asks for them, and the state parameter only where it is read.
\* The handler waits for the IdP and for the store: the step is the handler
\* up to its write to the store; its response is in flight until Answer, and
\* the goroutines logout spawned run in between.
Callback(codes, stateParams, outcomes) ==
  flight = NoFlight /\
  \E code \in codes :
  \E clientErr \in IF ~config.SkipTokenVerification /\ code # "" THEN BOOLEAN ELSE {FALSE} :
  \E ex \in IF ~config.SkipTokenVerification /\ code # "" /\ ~clientErr
            THEN outcomes ELSE {NoExchange} :
  \E encErr \in IF ~ex.err /\ CallbackIDToken(Blank(Request("callback")), ex).ok
                   /\ config.EnableRefreshTokens /\ ex.RefreshToken # ""
                THEN BOOLEAN ELSE {FALSE} :
  \E storeErr \in IF ~ex.err /\ CallbackIDToken(Blank(Request("callback")), ex).ok
                     /\ config.EnableRefreshTokens /\ ex.RefreshToken # ""
                     /\ ~encErr /\ config.useStore
                  THEN BOOLEAN ELSE {FALSE} :
  \E stateParam \in IF ~ex.err /\ CallbackIDToken(Blank(Request("callback")), ex).ok /\ ~encErr
                    THEN stateParams ELSE {<< >>} :
  \E out \in { CallbackOutcome([Request("callback") EXCEPT !.code = code, !.state = stateParam],
                               clientErr, ex, encErr, storeErr) } :
        /\ flight' = out.r
        /\ last' = NoFlight
        /\ store' = out.store
        /\ UNCHANGED << config, now, jar, pending, session >>

\* GET /oauth/callback, any request and any answer of the IdP.
oauthCallbackHandler == Callback(Codes, StateParams, ExchangeOutcomes)

\* GET /oauth/callback as a session begins with it: a code, no state
\* parameter, and a token response whose ID token verifies.
SessionCallback == Callback({"abc"}, {<< >>}, SessionExchanges)

\* ------------------------------------------------------------ the identity

NoUser == [err |-> TRUE, token |-> [raw |-> Absent], email |-> "", expiresAt |-> 0]

\* getIdentity: the bearer token of the request, else the kc-access cookie,
\* parsed into a user context.
getIdentity(req) ==
  LET raw == IF req.bearer # Absent THEN req.bearer ELSE req.access
      p   == parseToken(raw)
  IN  IF raw = Absent \/ p.err THEN NoUser
      ELSE [err |-> FALSE, token |-> p.token, email |-> p.identity.Email,
            expiresAt |-> p.identity.ExpiresAt]

\* user.isExpired(), at time t.
isExpiredAt(user, t) == t >= user.expiresAt

isExpired(user) == isExpiredAt(user, now)

\* A slip: a store that has no entry falls back to the cookie.
retrieveRefreshTokenWithFallback(req, user, storeGetErr) ==
  LET found == IF config.useStore /\ ~storeGetErr /\ StoreKey(user.token) \in DOMAIN store
               THEN [err |-> FALSE, text |-> store[StoreKey(user.token)]]
               ELSE IF req.refresh = Absent
                    THEN [err |-> TRUE, text |-> ""]
                    ELSE [err |-> FALSE, text |-> req.refresh]
  IN  IF found.err THEN found ELSE decodeText(found.text, config.EncryptionKey)

\* retrieveRefreshToken: the ciphertext from the store when there is one,
\* from the cookie otherwise, then decrypted.
retrieveRefreshToken(req, user, storeGetErr) ==
  LET found == IF config.useStore
               THEN IF storeGetErr \/ StoreKey(user.token) \notin DOMAIN store
                    THEN [err |-> TRUE, text |-> ""]
                    ELSE [err |-> FALSE, text |-> store[StoreKey(user.token)]]
               ELSE IF req.refresh = Absent
                    THEN [err |-> TRUE, text |-> ""]
                    ELSE [err |-> FALSE, text |-> req.refresh]
  IN  IF found.err THEN found ELSE decodeText(found.text, config.EncryptionKey)

\* ------------------------------------------------------------ logoutHandler

\* The token to revoke: the refresh token when it can be retrieved, the
\* encoded access token otherwise.
LogoutIdentityToken(req, user, storeGetErr) ==
  LET refresh == retrieveRefreshToken(req, user, storeGetErr)
  IN  IF ~refresh.err THEN refresh.text ELSE Encode(user.token)

\* A slip: the store entry's deletion is spawned and the cookies are left.
LogoutClearKeepsCookies(r, user) ==
  IF config.useStore THEN [r EXCEPT !.spawned = @ \cup {StoreKey(user.token)}] ELSE r

\* What the store was asked for the refresh token and how it answered.
LogoutStoreRead(r, user, storeGetErr) ==
  IF config.useStore
  THEN IF storeGetErr \/ StoreKey(user.token) \notin DOMAIN store
       THEN [r EXCEPT !.storeOps = Append(@, << "get", StoreKey(user.token), "", "error" >>)]
       ELSE [r EXCEPT !.storeOps = Append(@, << "get", StoreKey(user.token),
                                              store[StoreKey(user.token)], "ok" >>)]
  ELSE r

\* The cookies are cleared and, with a store, the deletion of the session's
\* entry is spawned.
LogoutClear(r, user) ==
  LET r1 == clearAllCookies(r)
  IN  IF config.useStore THEN [r1 EXCEPT !.spawned = @ \cup {StoreKey(user.token)}] ELSE r1

\* The revocation endpoint: the configured one, else the IdP's end-session
\* endpoint.
RevocationURL == defaultTo(config.RevocationEndpoint, config.EndSessionEndpoint)

\* The revocation step: the POST carries the client's id and secret, each
\* query-escaped, as its Basic credentials.  returned is set when the handler
\* returns from it.
LogoutRevocation(r, user, identityToken, clientErr, outcome) ==
  IF RevocationURL # ""
  THEN IF clientErr
       THEN [returned |-> TRUE,
             r |-> AbortWithStatus(Log(r, "error", "unable to retrieve the openid client"),
                                   StatusInternalServerError)]
       ELSE IF RevocationURL \in MalformedURLs
       THEN [returned |-> TRUE,
             r |-> AbortWithStatus(Log(r, "error", "unable to construct the revocation request"),
                                   StatusInternalServerError)]
       ELSE LET encodedID == QueryEscape(<< config.ClientID >>)
                encodedSecret == QueryEscape(config.ClientSecret)
                r1 == [r EXCEPT !.idp = Append(@,
                         << "revoke", RevocationURL, "refresh_token=" \o identityToken,
                            "Basic", encodedID, encodedSecret >>)]
            IN  IF outcome = "transport error"
                THEN [returned |-> TRUE,
                      r |-> Log(r1, "error", "unable to post to revocation endpoint")]
                ELSE IF outcome = "204"
                THEN [returned |-> FALSE, r |-> Log(r1, "user", user.email)]
                ELSE [returned |-> FALSE,
                      r |-> Log(Log(r1, "status", outcome), "response", "idp error page")]
  ELSE [returned |-> FALSE, r |-> r]

\* The answer: a redirect when the request asks for one, 200 otherwise.
LogoutFinish(r, redirectURL) ==
  IF redirectURL # << >> THEN redirectToURL(r, redirectURL)
  ELSE AbortWithStatus(r, StatusOK)

\* A slip: the cookies are cleared before the identity is looked for.
LogoutNoIdentityClears(req) ==
  AbortWithStatus(clearAllCookies(Blank(req)), StatusBadRequest)

\* No identity in the request: a 400, and the handler returns.
LogoutNoIdentity(req) == AbortWithStatus(Blank(req), StatusBadRequest)

\* The whole handler.
LogoutOutcome(req, storeGetErr, clientErr, outcome) ==
  LET user == getIdentity(req)
  IN  IF user.err THEN LogoutNoIdentity(req)
      ELSE LET identityToken == LogoutIdentityToken(req, user, storeGetErr)
               r1 == LogoutClear(LogoutStoreRead(Blank(req), user, storeGetErr), user)
               rv == LogoutRevocation(r1, user, identityToken, clientErr, outcome)
           IN  IF rv.returned THEN rv.r ELSE LogoutFinish(rv.r, req.redirect)

Pending(k) == IF k \in DOMAIN pending THEN pending[k] ELSE 0

\* The count of a token's deletions after one more is spawned, and the counts
\* it may have after one of them has run: a count of MaxPending stands for
\* that many or more.
OneMore(n) == IF n < MaxPending THEN n + 1 ELSE MaxPending

OneLess(n) == IF n < MaxPending THEN {n - 1} ELSE {MaxPending - 1, MaxPending}

\* A logout by the browser of the jar, its kc-state cookie the jar's or one
\* of the given others.  The handler waits for the revocation endpoint after
\* it has started the goroutine: the step is the handler up to there, with
\* its read of the store; its response is in flight until Answer, and the
\* goroutine runs in between or later.
Logout(cookies) ==
  flight = NoFlight /\
  \E redirect \in RedirectParams, bearer \in Bearers \ {"access.opaque"} :
  \E refresh \in {jar.state} \cup cookies :
  \E req \in { [Request("logout") EXCEPT !.redirect = redirect, !.bearer = bearer,
                                        !.access = jar.access, !.refresh = refresh] } :
  \E storeGetErr \in IF ~getIdentity(req).err /\ config.useStore
                        /\ StoreKey(getIdentity(req).token) \in DOMAIN store
                     THEN BOOLEAN ELSE {FALSE} :
  \E clientErr \in IF ~getIdentity(req).err /\ RevocationURL # "" THEN BOOLEAN ELSE {FALSE} :
  \E outcome \in IF ~getIdentity(req).err /\ RevocationURL # "" /\ ~clientErr
                    /\ RevocationURL \notin MalformedURLs
                 THEN RevocationOutcomes ELSE {"204"} :
  \E r \in { LogoutOutcome(req, storeGetErr, clientErr, outcome) } :
        /\ flight' = r
        /\ pending' = [k \in DOMAIN pending \cup r.spawned |->
                         IF k \in r.spawned THEN OneMore(Pending(k)) ELSE pending[k]]
        /\ last' = NoFlight
        /\ UNCHANGED << config, now, jar, store, session >>

\* GET /oauth/logout from the browser, with the cookies of its jar.
logoutHandler == Logout({})

\* GET /oauth/logout with the jar's kc-state cookie, a stale one or a
\* tampered one.
logoutHandlerAnyCookie == Logout(StaleCookies)

\* The goroutine logout spawned: the store entry is deleted, or the deletion
\* fails and the entry stays.
DeleteRefreshToken ==
  \E k \in DOMAIN pending, delErr \in BOOLEAN :
    /\ pending[k] > 0
    /\ \E left \in OneLess(pending[k]) : pending' = [pending EXCEPT ![k] = left]
    /\ store' = IF delErr THEN store ELSE StoreDelete(store, k)
    /\ UNCHANGED << config, now, jar, session, flight, last >>

\* The handler in flight returns: its response is written, and the browser
\* takes the cookies it sets.
Answer ==
  /\ flight # NoFlight
  /\ last' = flight
  /\ jar' = ApplyCookies(flight)
  /\ session' = SessionAfter(flight)
  /\ flight' = NoFlight
  /\ UNCHANGED << config, now, store, pending >>

\* -------------------------------------------------------- expirationHandler

\* A slip: any identity answers 200, expired or not.
ExpirationOutcomeIgnoresExpiry(req) ==
  LET user == getIdentity(req)
  IN  IF user.err THEN AbortWithStatus(Blank(req), StatusUnauthorized)
      ELSE AbortWithStatus(Blank(req), StatusOK)

\* The whole handler.
ExpirationOutcome(req) ==
  LET user == getIdentity(req)
  IN  IF user.err THEN AbortWithStatus(Blank(req), StatusUnauthorized)
      ELSE IF isExpired(user) THEN AbortWithStatus(Blank(req), StatusUnauthorized)
      ELSE AbortWithStatus(Blank(req), StatusOK)

expirationHandler ==
  \E bearer \in Bearers :
    /\ last' = ExpirationOutcome([Request("expired") EXCEPT !.bearer = bearer,
                                                            !.access = jar.access])
    /\ flight = NoFlight
    /\ UNCHANGED << config, now, jar, store, pending, session, flight >>

\* ------------------------------------------------------------- loginHandler

\* The IdP refuses a wrong password and grants a right one, when it answers.
UserCredsToken(username, password, answer) ==
  IF answer.err = "transport error" THEN answer
  ELSE IF password = "right" THEN answer
  ELSE [err |-> "invalid_grant", IDToken |-> "", AccessToken |-> "", RefreshToken |-> ""]

\* A slip: the login handler is on whatever the configuration says.
LoginEnabledAlways == TRUE

\* The login handler is on when the configuration enables it.
LoginEnabled == config.EnableLoginHandler

\* A slip: the tokens are returned and no cookie is dropped.
LoginCookieMissing(r, token, identity) == r

\* The kc-access cookie of a login: the access token as the IdP gave it.
LoginCookie(r, token, identity) ==
  dropAccessTokenCookie(r, token.AccessToken, identity.ExpiresAt - now)

\* The closure of the handler: the error message, the status and whether an
\* error is returned, with the response written so far.
LoginAttempt(req, clientErr, answer) ==
  LET r0 == Blank(req)
  IN  IF ~LoginEnabled
      THEN [err |-> TRUE, code |-> StatusNotImplemented, r |-> r0,
            msg |-> "attempt to login when login handler is disabled"]
      ELSE IF req.username = "" \/ req.password = ""
      THEN [err |-> TRUE, code |-> StatusBadRequest, r |-> r0,
            msg |-> "request does not have both username and password"]
      ELSE IF clientErr
      THEN [err |-> TRUE, code |-> StatusInternalServerError, r |-> r0,
            msg |-> "unable to create the oauth client for user_credentials request"]
      ELSE LET token == UserCredsToken(req.username, req.password, answer)
               r1 == [r0 EXCEPT !.idp = Append(@, << "password", req.username, req.password,
                                                     token.err, token.AccessToken >>)]
           IN  IF token.err = "invalid_grant"
               THEN [err |-> TRUE, code |-> StatusUnauthorized, r |-> r1,
                     msg |-> "invalid user credentials provided"]
               ELSE IF token.err # ""
               THEN [err |-> TRUE, code |-> StatusInternalServerError, r |-> r1,
                     msg |-> "unable to request the access token via grant_type 'password'"]
               ELSE LET p == parseToken(token.AccessToken)
                    IN  IF p.err
                        THEN [err |-> TRUE, code |-> StatusNotImplemented, r |-> r1,
                              msg |-> "unable to decode the access token"]
                        ELSE [err |-> FALSE, code |-> StatusOK, msg |-> "",
                              r |-> [LoginCookie(r1, token, p.identity)
                                     EXCEPT !.status = StatusOK,
                                            !.body = { << "id_token", token.IDToken >>,
                                                       << "access_token", token.AccessToken >>,
                                                       << "refresh_token", token.RefreshToken >> }]]

\* The whole handler: an error is logged and the request aborted with its
\* status.
LoginOutcome(req, clientErr, answer) ==
  LET a == LoginAttempt(req, clientErr, answer)
  IN  IF a.err
      THEN AbortWithStatus(
             Log(Log(Log(a.r, "client_ip", req.remoteAddr), "msg", a.msg),
                 "error", "(func() string)"),
             a.code)
      ELSE a.r

loginHandler ==
  \E username \in Usernames :
  \E password \in IF username # "" THEN Passwords ELSE {""} :
  \E clientErr \in IF LoginEnabled /\ username # "" /\ password # ""
                   THEN BOOLEAN ELSE {FALSE} :
  \E answer \in IF LoginEnabled /\ username # "" /\ password # "" /\ ~clientErr
                THEN PasswordOutcomes ELSE {CHOOSE a \in PasswordOutcomes : a.err = "invalid_grant"} :
  \E r \in { LoginOutcome([Request("login") EXCEPT !.username = username,
                                                   !.password = password],
                          clientErr, answer) } :
        /\ flight = NoFlight
        /\ last' = r
        /\ jar' = ApplyCookies(r)
        /\ session' = SessionAfter(r)
        /\ UNCHANGED << config, now, store, pending, flight >>

\* ------------------------------------------------- the identity middleware

\* The redirect of a browser without a session: /oauth/authorize with the
\* requested URI, /protected, as the base64 state.
AuthorizeRedirect ==
  << "/","o","a","u","t","h","/","a","u","t","h","o","r","i","z","e","?","s","t","a","t","e","=","L","3","B","y","b","3","R","l","Y","3","R","l","Z","A","=","=" >>

\* A request for a protected route: served upstream only with a token that
\* parses, verifies and has not expired.
ProtectedOutcome(req) ==
  LET raw  == IF req.bearer # Absent THEN req.bearer ELSE req.access
      p    == parseToken(raw)
      deny == IF req.html THEN redirectToURL(Blank(req), AuthorizeRedirect)
              ELSE AbortWithStatus(Blank(req), StatusUnauthorized)
  IN  IF raw = Absent THEN deny
      ELSE IF p.err THEN clearAllCookies(accessForbidden(Blank(req)))
      ELSE IF ~verifyToken(p.token) THEN accessForbidden(Blank(req))
      ELSE IF now >= p.identity.ExpiresAt THEN deny
      ELSE [Blank(req) EXCEPT !.status = StatusOK, !.upstream = TRUE,
                              !.verified = {raw}]

protectedRequest ==
  \E bearer \in Bearers, html \in BOOLEAN :
  \E r \in { ProtectedOutcome([Request("protected") EXCEPT !.bearer = bearer, !.html = html,
                                                           !.access = jar.access]) } :
        /\ flight = NoFlight
        /\ last' = r
        /\ jar' = ApplyCookies(r)
        /\ session' = SessionAfter(r)
        /\ UNCHANGED << config, now, store, pending, flight >>

Start ==
  /\ now = 0
  /\ jar = [access |-> Absent, state |-> Absent]
  /\ store = EmptyStore
  /\ pending = EmptyStore
  /\ session = "none"
  /\ flight = NoFlight
  /\ last = Blank(Request("none"))

Init == config \in Configs /\ Start

InitCallback == config \in CallbackConfigs /\ Start

Tick ==
  /\ now < MaxTime
  /\ now' = now + 1
  /\ UNCHANGED << config, jar, store, pending, session, flight, last >>

\* A session's life: it begins with a callback, and ends with a logout.
Next ==
  \/ Tick
  \/ SessionCallback
  \/ loginHandler
  \/ protectedRequest
  \/ logoutHandler
  \/ Answer
  \/ DeleteRefreshToken
  \/ expirationHandler

Spec == Init /\ [][Next]_vars

\* The callback on its own, with every request and every answer of the IdP.
NextCallback ==
  \/ Tick
  \/ oauthCallbackHandler
  \/ Answer

SpecCallback == InitCallback /\ [][NextCallback]_vars

\* Logins and logouts, the logouts with any kc-state cookie.
InitLogout == config \in LogoutConfigs /\ Start

NextLogout ==
  \/ SessionCallback
  \/ logoutHandlerAnyCookie
  \/ Answer
  \/ DeleteRefreshToken

SpecLogout == InitLogout /\ [][NextLogout]_vars

\* Logins and logouts with the scheduler fair to the goroutines logout
\* spawns and to the handlers: a deletion that has been started is run, and
\* a handler that has been entered returns.
SpecFair ==
  InitLogout /\ [][NextLogout]_vars /\ WF_vars(DeleteRefreshToken) /\ WF_vars(Answer)

\* /oauth/authorize on its own.
InitAuthorize == config \in AuthorizeConfigs /\ Start

NextAuthorize == oauthAuthorizationHandler

SpecAuthorize == InitAuthorize /\ [][NextAuthorize]_vars

\* The login flow: /oauth/authorize and /oauth/callback.
InitFlow == config \in FlowConfigs /\ Start

NextFlow ==
  \/ FlowAuthorize
  \/ oauthCallbackHandler
  \/ Answer

SpecFlow == InitFlow /\ [][NextFlow]_vars

\* ------------------------------------------------------------------ claims

\* What the last request was.
IsCallback == last.req.handler = "callback"
IsLogout == last.req.handler = "logout"
IsExpired == last.req.handler = "expired"
IsProtected == last.req.handler = "protected"

\* A cookie value that is a cookie: set, and not cleared.
Issued(value) == value \notin {NotSet, Cleared}

\* The last callback asked the IdP to exchange its code.
CallbackExchanged == IsCallback /\ last.idp # << >>

\* The ID token of the last callback's exchange parses and verifies.
IDTokenValid ==
  /\ ~last.exchanged.err
  /\ ~parseToken(last.exchanged.IDToken).err
  /\ verifyToken(parseToken(last.exchanged.IDToken).token)

\* The last callback got valid tokens and its encryption, if any, worked.
CallbackSucceeded ==
  /\ CallbackExchanged
  /\ IDTokenValid
  /\ \A i \in 1..Len(last.crypto) : last.crypto[i][2] # "error"

\* The target the state parameter stands for.
StateTarget(stateParam) ==
  IF stateParam # << >> /\ ~DecodeState(stateParam).err
  THEN DecodeState(stateParam).decoded
  ELSE << "/" >>

\* A redirect target on the proxy's own origin: a path, and not a
\* scheme-relative URL.
SameOrigin(url) ==
  /\ url # << >>
  /\ url[1] = "/"
  /\ Len(url) >= 2 => url[2] \notin {"/", "\\"}

\* The ciphertexts of the refresh tokens under the configured key.
Ciphertexts == { encodeText(p, config.EncryptionKey) : p \in RefreshTokens }

\* C1: a callback whose code exchange fails, or whose ID token does not parse
\* or does not verify, answers 403 and writes no kc-access cookie, no
\* kc-state cookie and no store entry.
C1_CallbackFailureForbidden ==
  (CallbackExchanged /\ ~IDTokenValid) =>
    /\ last.status = StatusForbidden
    /\ last.setAccess = NotSet
    /\ last.setState = NotSet
    /\ last.storeOps = << >>

C1_Witness ==
  /\ CallbackExchanged
  /\ last.exchanged.IDToken = "id.forged"
  /\ last.status = StatusForbidden

\* C2: a refresh token is in no log field, no Location and no cookie in the
\* clear: every kc-state cookie and every store value is an output of
\* encodeText, and no log field, Location or kc-access cookie is a refresh
\* token.
C2_RefreshTokenNeverInClear ==
  /\ \A e \in last.logs : e[2] \notin RefreshTokens
  /\ Flatten(last.location) \notin RefreshTokens
  /\ last.setAccess \notin RefreshTokens
  /\ last.setState \in {NotSet, Cleared} \cup Ciphertexts
  /\ jar.access \notin RefreshTokens
  /\ jar.state \in {Absent} \cup Ciphertexts
  /\ \A k \in DOMAIN store : store[k] \in Ciphertexts

C2_Witness ==
  /\ IsCallback
  /\ last.exchanged.RefreshToken = "refresh.jwt"
  /\ \/ last.setState = encodeText("refresh.jwt", config.EncryptionKey)
     \/ /\ "access.jwt" \in DOMAIN store
        /\ store["access.jwt"] = encodeText("refresh.jwt", config.EncryptionKey)

\* C3, as the specification states it: the Location of the callback's
\* redirect is never a URL on another origin.
C3_RedirectSameOrigin ==
  (IsCallback /\ last.status = StatusFound) => SameOrigin(last.location)

\* C4, as the claim states it: the token in the kc-access cookie of a
\* callback is one that passed verifyToken.
C4_CookieTokenVerified ==
  (IsCallback /\ Issued(last.setAccess)) => last.setAccess \in last.verified

\* C4, amended: the callback issues the kc-access cookie only after the ID
\* token of the exchange passed verifyToken; the cookie holds that verified
\* ID token when the access token does not parse, and the access token, which
\* the handler parses and does not verify, when it does.
C4_IDTokenVerifiedBeforeCookie ==
  (IsCallback /\ Issued(last.setAccess)) =>
    /\ last.exchanged.IDToken \in last.verified
    /\ verifyToken(parseToken(last.exchanged.IDToken).token)
    /\ IF parseToken(last.exchanged.AccessToken).err
       THEN last.setAccess = last.exchanged.IDToken
       ELSE last.setAccess = last.exchanged.AccessToken

C4_Witness ==
  /\ IsCallback
  /\ last.setAccess = "access.jwt"
  /\ last.verified = {"id.jwt"}

\* C5: once a logout got past its identity check, the jar holds no cookie
\* of the proxy, and a request presenting that jar and no bearer token has no
\* identity: /oauth/expired answers 401 and a protected route is not served
\* (401, or the redirect to /oauth/authorize).
C5_LogoutEndsSession ==
  session = "loggedout" =>
    /\ jar.access = Absent
    /\ jar.state = Absent
    /\ (IsExpired /\ last.req.bearer = Absent) => last.status = StatusUnauthorized
    /\ (IsProtected /\ last.req.bearer = Absent) =>
         /\ ~last.upstream
         /\ \/ last.status = StatusUnauthorized
            \/ last.status = StatusFound /\ last.location = AuthorizeRedirect

C5_Witness ==
  /\ session = "loggedout"
  /\ IsExpired
  /\ last.req.bearer = Absent
  /\ last.status = StatusUnauthorized

\* The answer of a logout whose revocation answered 204: a redirect to the
\* redirect parameter when there is one, 200 otherwise.
LogoutAnswered ==
  IF last.req.redirect # << >>
  THEN last.status = StatusFound /\ last.location = last.req.redirect
  ELSE last.status = StatusOK /\ last.location = << >>

\* C6, as the specification states it: a logout with a valid session answers
\* as it does after a 204 revocation, whatever became of the revocation.
C6_RevocationFailureSwallowed ==
  (IsLogout /\ ~getIdentity(last.req).err) => LogoutAnswered

\* The last request sent the revocation POST with the client's credentials,
\* query-escaped as the handler sends them.
RevocationPosted ==
  \E i \in 1..Len(last.idp) :
    /\ last.idp[i][1] = "revoke"
    /\ last.idp[i][2] = RevocationURL
    /\ last.idp[i][4] = "Basic"
    /\ last.idp[i][5] = QueryEscape(<< config.ClientID >>)
    /\ last.idp[i][6] = QueryEscape(config.ClientSecret)

\* C7, as the claim states it: a logout with a valid session clears the
\* cookies, posts the revocation with HTTP Basic credentials when an endpoint
\* is known, and answers 302 to the redirect parameter or 200.
C7_LogoutRevokesClearsAnswers ==
  (IsLogout /\ ~getIdentity(last.req).err) =>
    /\ last.setAccess = Cleared
    /\ last.setState = Cleared
    /\ RevocationURL # "" => RevocationPosted
    /\ LogoutAnswered

\* C8: a callback with valid tokens whose encryption did not fail answers 302
\* to the target of its state parameter and sets the kc-access cookie, with
\* or without refresh tokens, a refresh token in the response, a store.
C8_CallbackSuccessRedirects ==
  CallbackSucceeded =>
    /\ last.status = StatusFound
    /\ last.location = StateTarget(last.req.state)
    /\ Issued(last.setAccess)
    /\ last.setAccess \in {last.exchanged.AccessToken, last.exchanged.IDToken}

C8_Witness ==
  /\ CallbackSucceeded
  /\ config.EnableRefreshTokens /\ config.useStore
  /\ last.exchanged.RefreshToken # ""
  /\ last.status = StatusFound
  /\ last.location = << "/","b","y","e" >>
  /\ last.setAccess = "access.jwt"

\* C9: the redirect target of a callback is the base64 decoding of its state
\* parameter when that is present and decodes; when it is absent or does not
\* decode the target is "/" and the login completes all the same, with its
\* cookie and its 302.
C9_StateDecodedOrRoot ==
  CallbackSucceeded =>
    IF last.req.state # << >> /\ ~DecodeString(last.req.state).err
    THEN last.location = DecodeString(last.req.state).decoded
    ELSE /\ last.location = << "/" >>
         /\ last.status = StatusFound
         /\ Issued(last.setAccess)

C9_Witness ==
  /\ CallbackSucceeded
  /\ last.req.state = << "L","2","J","5","Z","Q" >>
  /\ last.location = << "/" >>
  /\ last.status = StatusFound
  /\ Issued(last.setAccess)

\* C10: /oauth/expired answers 200 exactly when an identity can be retrieved
\* from the request and it has not expired, and 401 otherwise.
C10_ExpiredIffNoLiveIdentity ==
  [][ (last'.req.handler = "expired" /\ expirationHandler) =>
        /\ last'.status \in {StatusOK, StatusUnauthorized}
        /\ last'.status = StatusOK <=>
             /\ ~getIdentity(last'.req).err
             /\ ~isExpired(getIdentity(last'.req)) ]_vars

C10_Witness ==
  /\ IsExpired
  /\ last.status = StatusUnauthorized
  /\ ~getIdentity(last.req).err

\* The last request was a login.
IsLogin == last.req.handler = "login"

\* The last login reached the token endpoint, which answered err.
GrantAnswered(err) ==
  /\ last.idp # << >>
  /\ last.idp[1][1] = "password"
  /\ last.idp[1][4] = err

\* C11: with EnableLoginHandler off, a login, whatever it posts, is answered
\* with a status other than 200, reaches no token endpoint and issues no
\* cookie.
C11_LoginOnlyWhenEnabled ==
  (IsLogin /\ ~config.EnableLoginHandler) =>
    /\ last.status # StatusOK
    /\ last.idp = << >>
    /\ last.setAccess = NotSet
    /\ last.setState = NotSet
    /\ last.body = {}

C11_Witness ==
  /\ IsLogin /\ ~config.EnableLoginHandler
  /\ last.req.username = "alice" /\ last.req.password = "right"
  /\ last.status = StatusNotImplemented

\* C12: with the login handler on, a grant the IdP refuses as invalid_grant
\* is a 401, a grant it gives is a 200 whose JSON body holds the access_token
\* the kc-access cookie is set to, and the cookie is issued exactly when the
\* status is 200.
C12_LoginStatusAndCookie ==
  (IsLogin /\ config.EnableLoginHandler) =>
    /\ GrantAnswered("invalid_grant") => last.status = StatusUnauthorized
    /\ (GrantAnswered("") /\ ~parseToken(last.idp[1][5]).err) =>
         /\ last.status = StatusOK
         /\ last.setAccess = last.idp[1][5]
    /\ last.status = StatusOK =>
         /\ GrantAnswered("")
         /\ << "access_token", last.setAccess >> \in last.body
    /\ Issued(last.setAccess) <=> last.status = StatusOK
    /\ last.setState = NotSet

C12_Witness ==
  /\ IsLogin /\ config.EnableLoginHandler
  /\ last.req.password = "right"
  /\ last.status = StatusOK
  /\ last.setAccess = "access.jwt"
  /\ << "access_token", "access.jwt" >> \in last.body

\* The last callback tried to save the refresh token and the store answered
\* with the given result.
StoreWrite(result) ==
  /\ IsCallback
  /\ \E i \in 1..Len(last.storeOps) :
       last.storeOps[i][1] = "put" /\ last.storeOps[i][4] = result

\* The response of the same callback had the store taken the write.
CallbackStored ==
  CallbackOutcome(last.req, FALSE, last.exchanged, FALSE, FALSE).r

\* C13: a callback whose write to the store fails still issues the
\* kc-access cookie and answers 302 to the target of the state parameter: the
\* status, the Location and the cookies are those of the same callback with
\* the write succeeding.
C13_StoreWriteFailureIgnored ==
  StoreWrite("error") =>
    /\ last.status = StatusFound
    /\ last.location = StateTarget(last.req.state)
    /\ Issued(last.setAccess)
    /\ last.status = CallbackStored.status
    /\ last.location = CallbackStored.location
    /\ last.setAccess = CallbackStored.setAccess
    /\ last.setState = CallbackStored.setState

C13_Witness ==
  /\ StoreWrite("error")
  /\ config.useStore
  /\ last.status = StatusFound
  /\ last.location = << "/","b","y","e" >>
  /\ last.setAccess = "access.jwt"

\* The token the last callback is to use: the access token of the exchange
\* when it parses, and its ID token otherwise.
CallbackChosenToken ==
  IF parseToken(last.exchanged.AccessToken).err
  THEN last.exchanged.IDToken
  ELSE last.exchanged.AccessToken

\* C14: a callback with a valid ID token puts the access token in the
\* kc-access cookie, and saves the refresh token under it, whenever the
\* access token parses, and uses the verified ID token exactly when it does
\* not; the callback answers its 302 in both cases.
C14_AccessTokenElseIDToken ==
  CallbackSucceeded =>
    /\ last.setAccess = CallbackChosenToken
    /\ last.setAccess = last.exchanged.IDToken
         <=> parseToken(last.exchanged.AccessToken).err
    /\ \A i \in 1..Len(last.storeOps) : last.storeOps[i][2] = CallbackChosenToken
    /\ last.status = StatusFound

C14_Witness ==
  /\ CallbackSucceeded
  /\ last.exchanged.AccessToken = "access.opaque"
  /\ last.setAccess = "id.jwt"
  /\ last.storeOps # << >>
  /\ last.storeOps[1][2] = "id.jwt"
  /\ last.status = StatusFound

\* The last request was for /oauth/authorize, with token verification on and
\* the OAuth client built.
Authorizing ==
  /\ last.req.handler = "authorize"
  /\ ~config.SkipTokenVerification
  /\ << "error", "failed to retrieve the oauth client for authorization" >> \notin last.logs

\* url is the IdP's authorization URL for the last request: its endpoint, the
\* state parameter of the request, and offline access exactly when the
\* scopes hold "offline".
AuthorizationURLFor(url) ==
  /\ url # << >>
  /\ url[1] = AuthEndpoint
  /\ \E i \in 1..Len(url) :
       /\ url[i] = "&state="
       /\ ~QueryUnescape(SubSeq(url, i + 1, Len(url))).err
       /\ QueryUnescape(SubSeq(url, i + 1, Len(url))).text = last.req.state
  /\ url[2] = "?access_type=offline&"
       <=> \E i \in 1..Len(config.Scopes) : config.Scopes[i] = "offline"
  /\ url[2] \in {"?", "?access_type=offline&"}

\* C15, as the specification states it: /oauth/authorize, with token
\* verification on and the OAuth client built, always answers 302 to the
\* IdP's authorization URL.
C15_AuthorizeAlwaysRedirects ==
  Authorizing =>
    /\ last.status = StatusFound
    /\ AuthorizationURLFor(last.location)

\* The redirect the sign-in page is given.
PageRedirect == (CHOOSE f \in last.body : f[1] = "redirect")[2]

\* C15, amended: /oauth/authorize, with token verification on and the OAuth
\* client built, answers 302 to the IdP's authorization URL when no custom
\* sign-in page is configured, and otherwise 200 with the sign-in page, which
\* is given that URL as its redirect unless the configured tags hold a
\* redirect of their own, which replaces it; the URL carries the incoming
\* state unchanged and asks for offline access iff the scopes hold "offline".
C15_AuthorizeRedirectsOrSignInPage ==
  Authorizing =>
    IF config.SignInPage = << >>
    THEN /\ last.status = StatusFound
         /\ AuthorizationURLFor(last.location)
         /\ last.body = {}
    ELSE /\ last.status = StatusOK
         /\ last.location = << >>
         /\ Cardinality({ f \in last.body : f[1] = "redirect" }) = 1
         /\ IF \E t \in config.Tags : t[1] = "redirect"
            THEN << "redirect", PageRedirect >> \in config.Tags
            ELSE AuthorizationURLFor(PageRedirect)

C15_Witness ==
  /\ Authorizing
  /\ config.SignInPage = << >>
  /\ config.Scopes = << "email", "offline" >>
  /\ last.req.state = << "L","2","J","5","Z","Q","=","=" >>
  /\ last.status = StatusFound
  /\ last.location[2] = "?access_type=offline&"

\* The last request was a logout that got past its identity check.
LoggedOut == IsLogout /\ ~getIdentity(last.req).err

\* The store key of the session the last logout ended.
LogoutKey == StoreKey(getIdentity(last.req).token)

\* C16, as the claim states it: with a store, the entry of the session a
\* logout ended is eventually deleted, the goroutine logout started being
\* scheduled fairly.
C16_EntryEventuallyDeleted ==
  \A k \in AccessTokens \cup IDTokens :
    (LoggedOut /\ config.useStore /\ LogoutKey = k) ~> (k \notin DOMAIN store)

\* The refresh tokens a ciphertext decrypts to under the configured key: one,
\* or none for what is no ciphertext of it.
Plaintexts(cipher) ==
  { p \in RefreshTokens : encodeText(p, config.EncryptionKey) = cipher }

\* The ciphertext a logout request finds: with a store the entry under the
\* session's key, as the store held it when the request came and if the
\* store gave it, and never the cookie; without one the kc-state cookie of
\* the request.
LogoutCiphertext(resp) ==
  LET key == StoreKey(getIdentity(resp.req).token)
  IN  IF config.useStore
      THEN IF key \in DOMAIN store /\ resp.storeOps[1][4] = "ok" THEN store[key] ELSE Absent
      ELSE resp.req.refresh

\* The token a logout is to revoke: the refresh token behind that
\* ciphertext, and the encoded access token when there is none.
LogoutRevokes(resp) ==
  IF Plaintexts(LogoutCiphertext(resp)) # {}
  THEN CHOOSE p \in Plaintexts(LogoutCiphertext(resp)) : TRUE
  ELSE Encode(getIdentity(resp.req).token)

\* A step of the logout handler: a logout is taken up, and its response is
\* in flight.
LogoutStep ==
  /\ flight = NoFlight
  /\ flight'.req.handler = "logout"

\* The pending deletions with those a response spawned.
PendingWith(r) ==
  [k \in DOMAIN pending \cup r.spawned |->
     IF k \in r.spawned THEN OneMore(Pending(k)) ELSE pending[k]]

\* C17: a logout reads the refresh token from the store as it is when the
\* request comes, before the cookies are cleared and the deletion of the
\* entry is spawned, or, without a store, from the cookie of the request, and
\* never from the other of the two; the revocation POST carries that refresh
\* token when it was found and decrypts, and the encoded access token
\* otherwise.
C17_RevokesRefreshElseAccess ==
  [][ (LogoutStep /\ ~getIdentity(flight'.req).err) =>
        /\ \A i \in 1..Len(flight'.idp) :
             /\ flight'.idp[i][1] = "revoke"
             /\ flight'.idp[i][3] = "refresh_token=" \o LogoutRevokes(flight')
        /\ flight'.setAccess = Cleared /\ flight'.setState = Cleared
        /\ store' = store
        /\ pending' = PendingWith(flight')
        /\ config.useStore =>
             /\ Len(flight'.storeOps) = 1 /\ flight'.storeOps[1][1] = "get"
             /\ flight'.spawned = {StoreKey(getIdentity(flight'.req).token)} ]_vars

C17_Witness ==
  /\ LoggedOut /\ config.useStore
  /\ last.req.refresh = encodeText("refresh.opaque", config.EncryptionKey)
  /\ last.storeOps[1][4] = "error"
  /\ last.idp # << >>
  /\ last.idp[1][3] = "refresh_token=access.jwt"
  /\ last.spawned = {"access.jwt"}

\* The last callback got as far as a refresh token to keep: valid tokens,
\* refresh tokens enabled and one in the response, and its encryption done.
KeepsRefreshToken ==
  /\ CallbackSucceeded
  /\ config.EnableRefreshTokens
  /\ last.exchanged.RefreshToken # ""

\* What the last callback wrote, and where.
CiphertextInOnePlace ==
  IsCallback =>
    IF KeepsRefreshToken
    THEN IF config.useStore
         THEN /\ last.setState = NotSet
              /\ Len(last.storeOps) = 1
              /\ last.storeOps[1][1] = "put"
              /\ last.storeOps[1][2] = last.setAccess
              /\ last.storeOps[1][3]
                   = encodeText(last.exchanged.RefreshToken, config.EncryptionKey)
         ELSE /\ last.setState
                   = encodeText(last.exchanged.RefreshToken, config.EncryptionKey)
              /\ last.storeOps = << >>
              /\ store = EmptyStore
    ELSE /\ last.setState = NotSet
         /\ last.storeOps = << >>

\* A step of the callback handler: a callback is taken up, and its response
\* is in flight.
CallbackStep ==
  /\ flight = NoFlight
  /\ flight'.req.handler = "callback"

\* The store after the writes a response records: a write the store took
\* puts the value under the key, any other leaves the store as it was.
RECURSIVE StoreWith(_, _)
StoreWith(st, ops) ==
  IF ops = << >> THEN st
  ELSE StoreWith(IF Head(ops)[1] = "put" /\ Head(ops)[4] = "ok"
                 THEN StorePut(st, Head(ops)[2], Head(ops)[3]) ELSE st,
                 Tail(ops))

\* C18: a callback writes the encrypted refresh token to one place: with a
\* store, one write to the store under the session's token and no kc-state
\* cookie; without one, the kc-state cookie and no write to the store.  With
\* refresh tokens off or none in the response, and in every callback that
\* fails, it writes neither.  The store
\* holds what the handler's writes put there when the handler has made them.
C18_CiphertextInOnePlace ==
  /\ []CiphertextInOnePlace
  /\ [][ CallbackStep => store' = StoreWith(store, flight'.storeOps) ]_vars

C18_Witness ==
  /\ KeepsRefreshToken /\ config.useStore
  /\ last.setState = NotSet
  /\ last.storeOps[1][4] = "ok"
  /\ "access.jwt" \in DOMAIN store
  /\ store["access.jwt"] = encodeText("refresh.jwt", config.EncryptionKey)

\* A step of the logout handler that found no identity in the request, or
\* the step that answers it.
LogoutRefused ==
  \/ LogoutStep /\ getIdentity(flight'.req).err
  \/ /\ flight.req.handler = "logout" /\ getIdentity(flight.req).err
     /\ flight' = NoFlight

\* The answer to a logout without an identity: a 400 that clears no cookie,
\* spawns no deletion, asks the store and the IdP nothing and redirects
\* nowhere.
LogoutRefusal ==
  (IsLogout /\ getIdentity(last.req).err) =>
    /\ last.status = StatusBadRequest
    /\ last.setAccess = NotSet /\ last.setState = NotSet
    /\ last.spawned = {}
    /\ last.storeOps = << >>
    /\ last.idp = << >>
    /\ last.location = << >>

\* C19: a logout that finds no identity answers 400 and does nothing else,
\* with or without a redirect parameter: the jar, the store, the pending
\* deletions and the session are as they were.
C19_LogoutWithoutIdentityNoEffect ==
  /\ []LogoutRefusal
  /\ [][ LogoutRefused => UNCHANGED << jar, store, pending, session >> ]_vars

C19_Witness ==
  /\ IsLogout /\ getIdentity(last.req).err
  /\ last.req.redirect = << "/","b","y","e" >>
  /\ last.req.refresh = encodeText("refresh.opaque", config.EncryptionKey)
  /\ last.status = StatusBadRequest
  /\ last.location = << >>

\* The last callback could not encrypt the refresh token.
EncryptionFailed ==
  /\ IsCallback
  /\ \E i \in 1..Len(last.crypto) : last.crypto[i] = << "encodeText", "error" >>

\* C20: a callback that cannot encrypt the refresh token answers 500 and
\* leaves no session: no kc-access cookie, no kc-state cookie, no write to the
\* store and no redirect.
C20_EncryptionFailureNoSession ==
  EncryptionFailed =>
    /\ last.status = StatusInternalServerError
    /\ last.setAccess = NotSet
    /\ last.setState = NotSet
    /\ last.storeOps = << >>
    /\ last.location = << >>

C20_Witness ==
  /\ EncryptionFailed
  /\ config.useStore
  /\ last.exchanged.AccessToken = "access.jwt"
  /\ last.status = StatusInternalServerError

\* The request of a response is for /oauth/authorize or /oauth/callback and
\* fails the checks the handler begins with: token verification is off, or
\* the callback has no code.
Refused(r) ==
  \/ r.req.handler \in {"authorize", "callback"} /\ config.SkipTokenVerification
  \/ r.req.handler = "callback" /\ r.req.code = ""

\* The last request answered is one.
PreconditionFails == Refused(last)

\* A step of a request that fails them: it is taken up, it is answered, or,
\* for /oauth/authorize, both at once.
PreconditionStep ==
  \/ flight = NoFlight /\ flight' # NoFlight /\ Refused(flight')
  \/ flight # NoFlight /\ flight' = NoFlight /\ Refused(flight)
  \/ flight = NoFlight /\ flight' = NoFlight /\ Refused(last')

\* C21: with SkipTokenVerification set /oauth/authorize and /oauth/callback
\* answer 406, and with it unset a callback without a code answers 400; in
\* each case the IdP is not contacted, no code is exchanged, no cookie is
\* issued and nothing is written to the store, and the jar, the store and
\* the session stay as they were.
C21_PreconditionsBeforeIdP ==
  /\ [](PreconditionFails =>
          /\ last.status = IF config.SkipTokenVerification
                           THEN StatusNotAcceptable ELSE StatusBadRequest
          /\ last.idp = << >>
          /\ last.exchanged = NoExchange
          /\ last.verified = {}
          /\ last.crypto = << >>
          /\ last.setAccess = NotSet /\ last.setState = NotSet
          /\ last.storeOps = << >>
          /\ last.location = << >>
          /\ last.body = {})
  /\ [][ PreconditionStep => UNCHANGED << jar, store, pending, session >> ]_vars

C21_Witness ==
  /\ ~config.SkipTokenVerification
  /\ IsCallback /\ last.req.code = ""
  /\ last.status = StatusBadRequest
  /\ jar.access = "access.jwt"
  /\ store # EmptyStore

====
